---- MODULE Spec2Model ----
(***************************************************************************)
(* A model of cookiecutter's generation pipeline                           *)
(* (src/cookiecutter/generate.py): generate_files walking a template tree, *)
(* render_and_create_dir, generate_file, is_copy_only_path, the            *)
(* post_gen_project hook call, and generate_context with                   *)
(* apply_overwrites_to_context.                                            *)
(*                                                                         *)
(* Template text (names and contents) is a sequence of segments: literal   *)
(* text, a variable reference {{ cookiecutter.v }}, or malformed template  *)
(* syntax.  Rendering replaces references by the context's values, so a    *)
(* rendered text differs from its source whenever the source has a         *)
(* reference.  Paths are sequences of names; the empty path is output_dir. *)
(***************************************************************************)
EXTENDS Integers, Sequences, FiniteSets, TLC

\* ---------------------------------------------------------------- bounds
MaxFiles == 2
MaxPre == 1
MaxListLen == 1

\* ---------------------------------------------------------- template text
Lit(s) == [k |-> "lit", s |-> s]
Var(v) == [k |-> "var", s |-> v]
Bad(s) == [k |-> "bad", s |-> s]
Sep == [k |-> "sep", s |-> "/"]

NoPath == <<>>

\* Exceptions are records: the class, the message prefix, the path the
\* message names, and the underlying template error handed to the constructor.
Exc(type, msg, path, error) ==
    [type |-> type, msg |-> msg, path |-> path, error |-> error]

NoExc == Exc("none", "", NoPath, "none")

\* -------------------------------------------------------------- rendering
\* jinja2 Environment.from_string(text).render(**context) under the strict
\* environment: a malformed template fails to compile, a reference to a
\* variable the context lacks fails to render.
RenderErr(text, ctx) ==
    IF \E i \in 1..Len(text) : text[i].k = "bad"
    THEN "TemplateSyntaxError"
    ELSE IF \E i \in 1..Len(text) :
              /\ text[i].k = "var"
              /\ \/ "cookiecutter" \notin DOMAIN ctx
                 \/ text[i].s \notin DOMAIN ctx["cookiecutter"]
         THEN "UndefinedError"
         ELSE "none"

RenderOut(text, ctx) ==
    [i \in 1..Len(text) |->
        IF text[i].k = "var" THEN Lit(ctx["cookiecutter"][text[i].s]) ELSE text[i]]

Render(text, ctx) ==
    LET e == RenderErr(text, ctx)
    IN  [err |-> e, out |-> IF e = "none" THEN RenderOut(text, ctx) ELSE <<>>]

\* A relative path is rendered as one template: an error in any component
\* fails the whole path, compile errors first.
RenderPath(path, ctx) ==
    LET errs == {RenderErr(path[i], ctx) : i \in 1..Len(path)}
        e == IF "TemplateSyntaxError" \in errs THEN "TemplateSyntaxError"
             ELSE IF "UndefinedError" \in errs THEN "UndefinedError"
             ELSE "none"
    IN  [err |-> e,
         out |-> IF e = "none"
                 THEN [i \in 1..Len(path) |-> RenderOut(path[i], ctx)]
                 ELSE <<>>]

\* ------------------------------------------------------------- filesystem
Parent(p) == SubSeq(p, 1, Len(p) - 1)

IsPrefix(p, q) == Len(p) <= Len(q) /\ SubSeq(q, 1, Len(p)) = p

PathExists(p, fsdirs, fsfiles) == p \in fsdirs \/ p \in DOMAIN fsfiles

make_sure_path_exists(fsdirs, p) == fsdirs \cup {SubSeq(p, 1, i) : i \in 0..Len(p)}

WriteFile(fsfiles, p, content) ==
    [q \in DOMAIN fsfiles \cup {p} |-> IF q = p THEN content ELSE fsfiles[q]]

\* A path string is modelled absolute unless its first name is Dot, which
\* stands for "relative to the working directory".  The empty path is the
\* directory output_dir names when generate_files is called, which for a
\* relative output_dir is the caller's working directory; the repository
\* directory is another directory, N_repo_dir.
Dot == <<Lit(".")>>
N_repo_dir == <<Lit("<repo_dir>")>>

IsAbsolute(p) == p = <<>> \/ p[1] # Dot

CwdPath(wd) == IF wd = "repo_dir" THEN <<N_repo_dir>> ELSE <<>>

\* The file or directory a path string names while wd is the working directory.
Resolve(p, wd) == IF IsAbsolute(p) THEN p ELSE CwdPath(wd) \o Tail(p)

RECURSIVE Flatten(_)
Flatten(path) ==
    IF Len(path) = 0 THEN <<>>
    ELSE IF Len(path) = 1 THEN path[1]
    ELSE path[1] \o <<Sep>> \o Flatten(Tail(path))

\* fnmatch.fnmatch(path, pattern) for patterns that are literal text with an
\* optional trailing "*" (which also matches across "/").
Fnmatch(path, pattern) ==
    IF pattern.star THEN IsPrefix(pattern.text, Flatten(path))
    ELSE Flatten(path) = pattern.text

ContextGet(ctx, key, default) == IF key \in DOMAIN ctx THEN ctx[key] ELSE default

is_copy_only_path(path, ctx) ==
    LET copy_without_render == ContextGet(ctx, "_copy_without_render", <<>>)
    IN  \E i \in 1..Len(copy_without_render) : Fnmatch(path, copy_without_render[i])

SeqsOf(S) ==
    {s \in [1..Cardinality(S) -> S] : \A i, j \in 1..Cardinality(S) : s[i] = s[j] => i = j}

\* ----------------------------------------------------------------- inputs
\* Names and contents the template trees are built from.
N_LICENSE == <<Lit("LICENSE")>>
N_logo == <<Lit("logo.png")>>
N_readme == <<Lit("README")>>
N_main == <<Lit("main.py")>>
N_post_gen == <<Lit("post_gen_project")>>
N_x_txt == <<Var("x"), Lit(".txt")>>
N_missing_txt == <<Var("missing"), Lit(".txt")>>
N_x_dir == <<Lit("src-"), Var("x")>>
N_missing_dir == <<Var("missing")>>

C_expr == <<Lit("name = "), Var("x")>>
C_undef == <<Lit("key = "), Var("missing")>>
C_syntax == <<Lit("x"), Bad("{% if %}")>>
C_png == <<Lit("PNG"), Var("x"), Var("missing")>>
C_old == <<Lit("old")>>

NoFiles == [p \in {} |-> C_old]

TFile(path, content, binary) == [path |-> path, content |-> content, binary |-> binary]

\* The template files a tree is drawn from; their paths are pairwise distinct.
FileUniverse ==
    { TFile(<<N_LICENSE>>, C_undef, FALSE),
      TFile(<<N_logo>>, C_png, TRUE),
      TFile(<<N_readme>>, C_syntax, FALSE),
      TFile(<<N_x_txt>>, C_expr, FALSE),
      TFile(<<N_missing_txt>>, C_expr, FALSE),
      TFile(<<N_x_dir, N_main>>, C_expr, FALSE),
      TFile(<<N_x_dir, N_logo>>, C_png, TRUE),
      TFile(<<N_missing_dir, N_main>>, C_expr, FALSE) }

Templates == {t \in SUBSET FileUniverse : Cardinality(t) <= MaxFiles}

P_LICENSE == [text |-> <<Lit("LICENSE")>>, star |-> TRUE]
P_all == [text |-> <<>>, star |-> TRUE]

R_proj == <<Lit("proj-"), Var("x")>>
R_missing == <<Var("missing")>>

\* The manifest variables live under the "cookiecutter" key; a top-level
\* "_copy_without_render" key may or may not be present.
Manifest(root, cwr) ==
    [_template |-> root, _copy_without_render |-> cwr, x |-> "vx"]

Contexts ==
    { [cookiecutter |-> Manifest(R_proj, <<>>)],
      [cookiecutter |-> Manifest(R_proj, <<P_LICENSE>>)],
      [cookiecutter |-> Manifest(R_proj, <<>>), _copy_without_render |-> <<P_LICENSE>>],
      [cookiecutter |-> Manifest(R_proj, <<>>), _copy_without_render |-> <<P_all>>],
      [cookiecutter |-> Manifest(R_missing, <<>>)] }

HookScripts == {"none", "exit0", "exit1"}

\* output_dir: an absolute path, or the default '.'.
OutputDirs == {<<>>, <<Dot>>}

\* The output paths a run of generate_files can write to.
Destinations(tmpl, ctx) ==
    LET r == Render(ctx["cookiecutter"]["_template"], ctx)
    IN  IF r.err # "none" THEN {}
        ELSE {<<r.out>> \o RenderPath(f.path, ctx).out :
                 f \in {g \in tmpl : RenderPath(g.path, ctx).err = "none"}}

\* Filesystems the caller may start from: an empty output_dir, or an existing
\* project directory holding at most MaxPre files at destination paths.
PreFileSets(tmpl, ctx) ==
    {S \in SUBSET Destinations(tmpl, ctx) : Cardinality(S) <= MaxPre}

PreDirs(S, tmpl, ctx) ==
    LET r == Render(ctx["cookiecutter"]["_template"], ctx)
    IN  UNION {make_sure_path_exists({}, Parent(p)) : p \in S}
          \cup make_sure_path_exists({}, <<r.out>>)

\* ------------------------------------------------- render_and_create_dir
\* render_and_create_dir without the existence check.
render_and_create_dir_no_exists_check(dirname, ctx, output_dir, overwrite, fsdirs, fsfiles, wd) ==
    LET r == RenderPath(dirname, ctx)
        dir_to_create == output_dir \o r.out
        target == Resolve(dir_to_create, wd)
    IN  IF r.err # "none"
        THEN [exc |-> Exc(r.err, "", NoPath, "none"), dirs |-> fsdirs, dir |-> NoPath]
        ELSE [exc |-> NoExc,
              dirs |-> make_sure_path_exists(fsdirs, target),
              dir |-> dir_to_create]

\* Renders dirname, refuses an existing path unless overwriting is allowed,
\* creates the directory.  The result carries the exception raised (if any),
\* the directories of the filesystem afterwards and the path created.
render_and_create_dir(dirname, ctx, output_dir, overwrite, fsdirs, fsfiles, wd) ==
    LET r == RenderPath(dirname, ctx)
        dir_to_create == output_dir \o r.out
        target == Resolve(dir_to_create, wd)
    IN  IF r.err # "none"
        THEN [exc |-> Exc(r.err, "", NoPath, "none"), dirs |-> fsdirs, dir |-> NoPath]
        ELSE IF PathExists(target, fsdirs, fsfiles) /\ ~overwrite
        THEN [exc |-> Exc("OutputDirExistsException", "", dir_to_create, "none"),
              dirs |-> fsdirs, dir |-> NoPath]
        ELSE [exc |-> NoExc,
              dirs |-> make_sure_path_exists(fsdirs, target),
              dir |-> dir_to_create]

\* ------------------------------------------------------------ generate_file
\* generate_file_mode that renders binary files like text files.
generate_file_mode_renders_binary(skip, exists, binary) ==
    IF skip /\ exists THEN "skip" ELSE "render"

\* Which way generate_file handles the input once the output path is known.
generate_file_mode(skip, exists, binary) ==
    IF skip /\ exists THEN "skip"
    ELSE IF binary THEN "copy"
    ELSE "render"

\* The result carries the exception raised (if any), the filesystem afterwards
\* and the input files whose content was handed to the renderer.  outfile is
\* the file the path string join(project_dir, rendered) names while wd is the
\* working directory.
generate_file(proj, file, ctx, skip, fsdirs, fsfiles, calls, wd) ==
    LET r == RenderPath(file.path, ctx)
        outfile == Resolve(proj \o r.out, wd)
        dirs1 == make_sure_path_exists(fsdirs, Parent(outfile))
        mode == generate_file_mode(skip, PathExists(outfile, fsdirs, fsfiles), file.binary)
        c == Render(file.content, ctx)
    IN  IF r.err # "none"
        THEN [exc |-> Exc(r.err, "", NoPath, "none"),
              dirs |-> fsdirs, files |-> fsfiles, calls |-> calls]
        ELSE IF mode = "skip"
        THEN [exc |-> NoExc, dirs |-> dirs1, files |-> fsfiles, calls |-> calls]
        ELSE IF mode = "copy"
        THEN [exc |-> NoExc, dirs |-> dirs1,
              files |-> WriteFile(fsfiles, outfile, file.content), calls |-> calls]
        ELSE IF c.err # "none"
        THEN [exc |-> Exc("UndefinedVariableInTemplate",
                          "Encountered error while rendering template", NoPath, c.err),
              dirs |-> dirs1, files |-> fsfiles, calls |-> calls \cup {file.path}]
        ELSE [exc |-> NoExc, dirs |-> dirs1,
              files |-> WriteFile(fsfiles, outfile, c.out),
              calls |-> calls \cup {file.path}]

\* The copy-only branch of the walk: render the path, copy the bytes.
copy_only_file(proj, file, ctx, fsdirs, fsfiles, wd) ==
    LET r == RenderPath(file.path, ctx)
        outfile == Resolve(proj \o r.out, wd)
    IN  IF r.err # "none"
        THEN [exc |-> Exc(r.err, "", NoPath, "none"), files |-> fsfiles]
        ELSE IF Parent(outfile) \notin fsdirs
        THEN [exc |-> Exc("FileNotFoundError", "", outfile, "none"), files |-> fsfiles]
        ELSE [exc |-> NoExc, files |-> WriteFile(fsfiles, outfile, file.content)]

\* What the except clause around generate_file turns an exception into: an
\* UndefinedError enters the handler, whose first statement reads the name
\* delete_project_on_failure, which generate_files never binds.
file_handler(exc) ==
    IF exc.type = "UndefinedError"
    THEN Exc("NameError", "name 'delete_project_on_failure' is not defined", NoPath, "none")
    ELSE exc

\* What the except clause around render_and_create_dir turns an exception into.
dir_handler(exc, dirpath) ==
    IF exc.type = "UndefinedError"
    THEN Exc("UndefinedVariableInTemplate", "Unable to create directory", dirpath, "UndefinedError")
    ELSE exc

\* ------------------------------------------------------------------ state
VARIABLES
    overwrite_if_exists, skip_if_file_exists, accept_hooks, keep_project_on_failure,
    context,        \* the context handed to generate_files
    template,       \* the files of the template tree under repo_dir
    hookScript,     \* the post_gen_project script of the template, if any
    fs0,            \* the output filesystem at the call: [dirs, files]
    dirs, files,    \* the output filesystem: directories, and file contents
    output_dir,     \* argument of generate_files
    cwd,            \* the process working directory
    pc,             \* where generate_files is
    project_dir,    \* local of generate_files
    stack,          \* os.walk: directories still to be visited
    root, dirsL, pdirs, pfiles,  \* os.walk: current triple, and what the loops have left
    raised,         \* the exception that reached the caller
    result,         \* the value returned to the caller
    renderCalls     \* template files whose content was handed to the renderer

genVars == <<overwrite_if_exists, skip_if_file_exists, accept_hooks,
             keep_project_on_failure, context, template, hookScript, fs0, output_dir,
             dirs, files, cwd, pc, project_dir, stack, root, dirsL, pdirs,
             pfiles, raised, result, renderCalls>>

VARIABLES
    manifestShape,    \* what context_file holds: the shape of its JSON value
    manifest,         \* the object in it (the first one of a list), if any
    default_context, extra_context,
    gcContext,        \* local "context" of generate_context, when a mapping
    gcKind,           \* the type of the value bound to "context"
    gcPc,             \* where generate_context is
    gcRaised          \* the exception class that reached the caller

ctxInputs == <<manifestShape, manifest, default_context, extra_context>>
ctxVars == <<ctxInputs, gcContext, gcKind, gcPc, gcRaised>>

VARIABLES
    hook_name,        \* argument of run_hook
    hooksDirExists,   \* whether the template has a hooks directory
    hooksListing,     \* os.listdir(hooks_dir)
    hookText,         \* the text of the hook scripts
    hookExit,         \* what running the script ends in
    script_path,      \* local of run_hook: what find_hook returned
    hkTemp,           \* the temporary script files on disk, by content
    hkExecuted,       \* the scripts executed so far
    hkPc,             \* where run_hook is
    hkRaised          \* the exception class that reached the caller

hookInputs == <<hook_name, hooksDirExists, hooksListing, hookText, hookExit>>
hookVars == <<hookInputs, script_path, hkTemp, hkExecuted, hkPc, hkRaised>>

VARIABLES
    repo_url,         \* argument of clone
    checkout,         \* argument of clone: "" when none is given
    no_input,         \* argument of clone
    installed,        \* the version control programs on the machine
    answers,          \* what the user answers when prompted
    cloneExit,        \* what the clone subprocess ends in
    checkoutExit,     \* what the checkout subprocess ends in
    clFs0,            \* which of clone_to_dir and repo_dir exist at the call
    clFs,             \* which of them exist now
    repo_type,        \* local of clone
    clSubprocesses,   \* the commands started so far
    clPrompts,        \* the questions asked so far
    clPc,             \* where clone is
    clRaised,         \* the exception class that reached the caller
    clResult          \* whether clone returned the repository directory

cloneInputs == <<repo_url, checkout, no_input, installed, answers, cloneExit,
                 checkoutExit, clFs0>>
cloneVars == <<cloneInputs, clFs, repo_type, clSubprocesses, clPrompts, clPc,
               clRaised, clResult>>

VARIABLES
    is_url,           \* argument of unzip
    uzNoInput,        \* argument of unzip: no_input
    zipValid,         \* whether the file is a zip archive
    zipLayout,        \* what the archive holds at its top level
    uzAnswers,        \* what the user answers when prompted
    uzDest0,          \* the destination directory at the call
    uzDest,           \* the destination directory now
    uzSource,         \* local source_dir: what it holds, once extracted
    uzTempFile,       \* whether the downloaded temporary file is on disk
    uzTempDir,        \* whether the temporary directory is on disk
    uzRemovals,       \* how many times the destination was removed
    uzPrompt,         \* the call of prompt_and_delete, once made
    uzPc,             \* where unzip is
    uzRaised,         \* the exception class that reached the caller
    uzResult          \* whether unzip returned the destination path

unzipInputs == <<is_url, uzNoInput, zipValid, zipLayout, uzAnswers, uzDest0>>
unzipVars == <<unzipInputs, uzDest, uzSource, uzTempFile, uzTempDir, uzRemovals,
               uzPrompt, uzPc, uzRaised, uzResult>>

\* What the actions of one function leave alone: the state of the others.
notGen == <<ctxVars, hookVars, cloneVars, unzipVars>>
notCtx == <<genVars, hookVars, cloneVars, unzipVars>>
notHook == <<genVars, ctxVars, cloneVars, unzipVars>>
notClone == <<genVars, ctxVars, hookVars, unzipVars>>
notUnzip == <<genVars, ctxVars, hookVars, cloneVars>>

\* prompt_and_delete was not called.
NoPrompt == [called |-> FALSE, ret |-> "none", deleted |-> FALSE, asked |-> <<>>]

UnzipIdle ==
    /\ is_url = FALSE
    /\ uzNoInput = FALSE
    /\ zipValid = FALSE
    /\ zipLayout = "single_dir"
    /\ uzAnswers = [delete |-> FALSE, reuse |-> FALSE]
    /\ uzDest0 = "absent"
    /\ uzDest = "absent"
    /\ uzSource = "none"
    /\ uzTempFile = FALSE
    /\ uzTempDir = FALSE
    /\ uzRemovals = 0
    /\ uzPrompt = NoPrompt
    /\ uzPc = "idle"
    /\ uzRaised = "none"
    /\ uzResult = FALSE

NoFile == [stem |-> "", tail |-> "", ext |-> ""]

HookIdle ==
    /\ hook_name = "pre_prompt"
    /\ hooksDirExists = FALSE
    /\ hooksListing = {}
    /\ hookText = <<>>
    /\ hookExit = "exit0"
    /\ script_path = NoFile
    /\ hkTemp = {}
    /\ hkExecuted = <<>>
    /\ hkPc = "idle"
    /\ hkRaised = "none"

NoUrl == [prefix |-> "", git |-> FALSE, bitbucket |-> FALSE]
NoDirs == [clone_to_dir |-> FALSE, repo_dir |-> FALSE]

CloneIdle ==
    /\ repo_url = NoUrl
    /\ checkout = ""
    /\ no_input = FALSE
    /\ installed = {}
    /\ answers = [delete |-> FALSE, reuse |-> FALSE]
    /\ cloneExit = "exit0"
    /\ checkoutExit = "exit0"
    /\ clFs0 = NoDirs
    /\ clFs = NoDirs
    /\ repo_type = "none"
    /\ clSubprocesses = <<>>
    /\ clPrompts = <<>>
    /\ clPc = "idle"
    /\ clRaised = "none"
    /\ clResult = FALSE

inputs == <<overwrite_if_exists, skip_if_file_exists, accept_hooks,
            keep_project_on_failure, context, template, hookScript, fs0, output_dir>>

walkLocals == <<stack, root, dirsL, pdirs, pfiles>>

\* os.listdir of a template directory, split as os.walk splits it.
SubDirs(r) ==
    {SubSeq(f.path, 1, Len(r) + 1) :
        f \in {g \in template : IsPrefix(r, g.path) /\ Len(g.path) > Len(r) + 1}}

FilesIn(r) == {f \in template : Parent(f.path) = r}

InitGen ==
    /\ overwrite_if_exists \in BOOLEAN
    /\ skip_if_file_exists \in BOOLEAN
    /\ accept_hooks \in BOOLEAN
    /\ keep_project_on_failure \in BOOLEAN
    /\ context \in Contexts
    /\ template \in Templates
    /\ hookScript \in HookScripts
    /\ output_dir \in OutputDirs
    /\ \/ fs0 = [dirs |-> {<<>>, <<N_repo_dir>>}, files |-> NoFiles]
       \/ /\ Render(context["cookiecutter"]["_template"], context).err = "none"
          /\ \E S \in PreFileSets(template, context) :
                fs0 = [dirs |-> PreDirs(S, template, context) \cup {<<N_repo_dir>>},
                       files |-> [p \in S |-> C_old]]
    /\ dirs = fs0.dirs
    /\ files = fs0.files
    /\ cwd = "caller"
    /\ pc = "start"
    /\ project_dir = NoPath
    /\ stack = <<>>
    /\ root = NoPath
    /\ dirsL = <<>>
    /\ pdirs = <<>>
    /\ pfiles = <<>>
    /\ raised = NoExc
    /\ result = NoPath
    /\ renderCalls = {}

\* utils.work_in(dirname): the block runs with dirname as the working
\* directory, and the directory saved on entry is restored on every way out
\* of the block.
work_in_enter(dirname) == dirname
work_in_exit(curdir) == curdir

\* Raise that lets the exception out with the working directory as it is.
Raise_keeps_cwd(exc, at) ==
    /\ raised' = exc
    /\ pc' = at
    /\ UNCHANGED cwd

\* An exception leaves generate_files, through the with block if it was
\* raised inside one.
Raise(exc, at) ==
    /\ raised' = exc
    /\ pc' = at
    /\ cwd' = work_in_exit("caller")

\* CreateProjectDir that stores the rendered name of the project directory
\* back into the context it was given.
CreateProjectDir_stores_rendered_name ==
    /\ pc = "start"
    /\ LET r == render_and_create_dir(<<context["cookiecutter"]["_template"]>>, context,
                                      output_dir, overwrite_if_exists, dirs, files, cwd)
       IN  IF r.exc.type # "none"
           THEN /\ Raise(r.exc, "raised_root")
                /\ UNCHANGED <<dirs, project_dir, stack, context>>
           ELSE /\ dirs' = r.dirs
                /\ project_dir' = r.dir
                /\ context' = [context EXCEPT !["cookiecutter"]["_template"] =
                                                 r.dir[Len(r.dir)]]
                /\ stack' = << <<>> >>
                /\ pc' = "walk"
                /\ cwd' = work_in_enter("repo_dir")
                /\ UNCHANGED raised
    /\ UNCHANGED <<notGen, overwrite_if_exists, skip_if_file_exists, accept_hooks,
                   keep_project_on_failure, template, hookScript, fs0, output_dir,
                   files, root, dirsL, pdirs, pfiles, result, renderCalls>>

\* generate_files up to the walk: render and create the project directory,
\* enter repo_dir.
CreateProjectDir ==
    /\ pc = "start"
    /\ LET r == render_and_create_dir(<<context["cookiecutter"]["_template"]>>, context,
                                      output_dir, overwrite_if_exists, dirs, files, cwd)
       IN  IF r.exc.type # "none"
           THEN /\ Raise(r.exc, "raised_root")
                /\ UNCHANGED <<dirs, project_dir, stack>>
           ELSE /\ dirs' = r.dirs
                /\ project_dir' = r.dir
                /\ stack' = << <<>> >>
                /\ pc' = "walk"
                /\ cwd' = work_in_enter("repo_dir")
                /\ UNCHANGED raised
    /\ UNCHANGED <<notGen, inputs, files, root, dirsL, pdirs, pfiles, result, renderCalls>>

\* os.walk yields the next directory, top-down, with its listing.
WalkNext ==
    /\ pc = "walk"
    /\ stack # <<>>
    /\ root' = Head(stack)
    /\ stack' = Tail(stack)
    /\ \E dl \in SeqsOf(SubDirs(Head(stack))) :
          /\ dirsL' = dl
          /\ pdirs' = dl
    /\ pfiles' \in SeqsOf(FilesIn(Head(stack)))
    /\ pc' = "root"
    /\ UNCHANGED <<notGen, inputs, dirs, files, cwd, project_dir, raised, result, renderCalls>>

\* One iteration of "for dirname in dirs".
MaterializeDir ==
    /\ pc = "root"
    /\ pdirs # <<>>
    /\ LET dirpath == Head(pdirs)
           r == render_and_create_dir(dirpath, context, project_dir,
                                      overwrite_if_exists, dirs, files, cwd)
       IN  IF r.exc.type # "none"
           THEN /\ Raise(dir_handler(r.exc, dirpath), "raised_walk")
                /\ UNCHANGED <<dirs, pdirs>>
           ELSE /\ dirs' = r.dirs
                /\ pdirs' = Tail(pdirs)
                /\ UNCHANGED <<pc, cwd, raised>>
    /\ UNCHANGED <<notGen, inputs, files, project_dir, stack, root, dirsL, pfiles, result, renderCalls>>

\* One iteration of "for filename in files".
MaterializeFile ==
    /\ pc = "root"
    /\ pdirs = <<>>
    /\ pfiles # <<>>
    /\ LET file == Head(pfiles)
       IN  IF is_copy_only_path(file.path, context)
           THEN LET r == copy_only_file(project_dir, file, context, dirs, files, cwd)
                IN  /\ files' = r.files
                    /\ UNCHANGED <<dirs, renderCalls>>
                    /\ IF r.exc.type # "none"
                       THEN Raise(r.exc, "raised_walk") /\ UNCHANGED pfiles
                       ELSE pfiles' = Tail(pfiles) /\ UNCHANGED <<pc, cwd, raised>>
           ELSE LET r == generate_file(project_dir, file, context, skip_if_file_exists,
                                       dirs, files, renderCalls, cwd)
                IN  /\ dirs' = r.dirs
                    /\ files' = r.files
                    /\ renderCalls' = r.calls
                    /\ IF r.exc.type # "none"
                       THEN Raise(file_handler(r.exc), "raised_walk") /\ UNCHANGED pfiles
                       ELSE pfiles' = Tail(pfiles) /\ UNCHANGED <<pc, cwd, raised>>
    /\ UNCHANGED <<notGen, inputs, project_dir, stack, root, dirsL, pdirs, result>>

\* The loop body is done for this directory: os.walk descends into its dirs.
LeaveRoot ==
    /\ pc = "root"
    /\ pdirs = <<>>
    /\ pfiles = <<>>
    /\ stack' = dirsL \o stack
    /\ pc' = "walk"
    /\ UNCHANGED <<notGen, inputs, dirs, files, cwd, project_dir, root, dirsL, pdirs, pfiles,
                   raised, result, renderCalls>>

\* The walk is exhausted: leave work_in, then either call the hook or return.
WalkDone ==
    /\ pc = "walk"
    /\ stack = <<>>
    /\ cwd' = work_in_exit("caller")
    /\ IF accept_hooks
       THEN pc' = "hook" /\ UNCHANGED result
       ELSE pc' = "returned" /\ result' = project_dir
    /\ UNCHANGED <<notGen, inputs, dirs, files, project_dir, walkLocals, raised, renderCalls>>

\* _run_hook_from_repo_dir('post_gen_project', repo_dir, project_dir, ...):
\* the arguments bind repo_dir to 'post_gen_project' and hook_name to the
\* repository path.  work_in('post_gen_project') fails unless the caller's
\* directory has an entry of that name; inside it, run_hook is a name
\* generate.py never imports.  Either way the directory is restored and
\* nothing is deleted.
RunPostGenHook ==
    /\ pc = "hook"
    /\ \E hasDir \in BOOLEAN :
          raised' = IF hasDir
                    THEN Exc("NameError", "name 'run_hook' is not defined", NoPath, "none")
                    ELSE Exc("FileNotFoundError", "", <<N_post_gen>>, "none")
    /\ pc' = "raised_hook"
    /\ cwd' = work_in_exit("caller")
    /\ UNCHANGED <<notGen, inputs, dirs, files, project_dir, walkLocals, result, renderCalls>>

Next ==
    \/ CreateProjectDir
    \/ WalkNext
    \/ MaterializeDir
    \/ MaterializeFile
    \/ LeaveRoot
    \/ WalkDone
    \/ RunPostGenHook

\* ======================================================= generate_context
\* JSON / Python values are tagged: a text scalar, a non-text scalar (s holds
\* its printed form), a list of text items, or a mapping.
NoDict == [k \in {} |-> 0]
VStr(x) == [t |-> "str", s |-> x, l |-> <<>>, d |-> NoDict]
VInt(x) == [t |-> "int", s |-> x, l |-> <<>>, d |-> NoDict]
VList(items) == [t |-> "list", s |-> "", l |-> items, d |-> NoDict]
VDict(f) == [t |-> "dict", s |-> "", l |-> <<>>, d |-> f]

\* str(value) of a scalar.
StrOf(v) == VStr(v.s)

Keys == {"a", "b"}
InnerKey == "n"
\* Iteration order of a mapping's items.
KeyOrder == <<"a", "b", "n">>
ItemsOrder(f) == SelectSeq(KeyOrder, LAMBDA k : k \in DOMAIN f)

Put(f, k, v) == [x \in DOMAIN f \cup {k} |-> IF x = k THEN v ELSE f[x]]

\* Values a mapping from source tag may hold ("m" manifest, "d" defaults,
\* "e" extra): the tag makes the origin of a value in the result visible.
ListsOf(tag) == {[i \in 1..n |-> tag] : n \in 0..MaxListLen}
Vals(tag) ==
    {VStr(tag), VInt("7"),
     VDict([k \in {InnerKey} |-> VStr(tag)]),
     VDict([k \in {InnerKey} |-> VInt("7")])}
      \cup {VList(l) : l \in ListsOf(tag)}
Dicts(tag) == UNION {[D -> Vals(tag)] : D \in SUBSET Keys}

RECURSIVE apply_items(_, _, _, _)
\* apply_one whose scalar branch keeps a value the context already has.
apply_one_keeps_existing(ctx, key, value, in_dictionary_variable) ==
    IF value.t = "dict"
    THEN LET c1 == IF key \notin DOMAIN ctx THEN Put(ctx, key, VDict(NoDict)) ELSE ctx
         IN  IF c1[key].t # "dict"
             THEN IF DOMAIN value.d = {}
                  THEN [err |-> "none", ctx |-> c1]
                  ELSE [err |-> "TypeError", ctx |-> c1]
             ELSE LET r == apply_items(c1[key].d, value.d, ItemsOrder(value.d), TRUE)
                  IN  [err |-> r.err, ctx |-> Put(c1, key, VDict(r.ctx))]
    ELSE IF value.t = "list"
    THEN LET c1 == IF key \notin DOMAIN ctx THEN Put(ctx, key, VList(<<>>)) ELSE ctx
         IN  IF c1[key].t # "list"
             THEN [err |-> "AttributeError", ctx |-> c1]
             ELSE [err |-> "none", ctx |-> Put(c1, key, VList(c1[key].l \o value.l))]
    ELSE IF key \in DOMAIN ctx
    THEN [err |-> "none", ctx |-> ctx]
    ELSE [err |-> "none", ctx |-> Put(ctx, key, StrOf(value))]

\* One iteration of the loop of apply_overwrites_to_context on a mapping ctx.
apply_one(ctx, key, value, in_dictionary_variable) ==
    IF value.t = "dict"
    THEN LET c1 == IF key \notin DOMAIN ctx THEN Put(ctx, key, VDict(NoDict)) ELSE ctx
         IN  IF c1[key].t # "dict"
             THEN \* the recursive call indexes a text, list or number by a key
                  IF DOMAIN value.d = {}
                  THEN [err |-> "none", ctx |-> c1]
                  ELSE [err |-> "TypeError", ctx |-> c1]
             ELSE LET r == apply_items(c1[key].d, value.d, ItemsOrder(value.d), TRUE)
                  IN  [err |-> r.err, ctx |-> Put(c1, key, VDict(r.ctx))]
    ELSE IF value.t = "list"
    THEN LET c1 == IF key \notin DOMAIN ctx THEN Put(ctx, key, VList(<<>>)) ELSE ctx
         IN  IF c1[key].t # "list"
             THEN [err |-> "AttributeError", ctx |-> c1]
             ELSE [err |-> "none", ctx |-> Put(c1, key, VList(c1[key].l \o value.l))]
    ELSE IF in_dictionary_variable
    THEN [err |-> "none", ctx |-> Put(ctx, key, value)]
    ELSE [err |-> "none", ctx |-> Put(ctx, key, StrOf(value))]

apply_items(ctx, overwrite_context, keys, in_dictionary_variable) ==
    IF keys = <<>> THEN [err |-> "none", ctx |-> ctx]
    ELSE LET r == apply_one(ctx, Head(keys), overwrite_context[Head(keys)],
                            in_dictionary_variable)
         IN  IF r.err # "none" THEN r
             ELSE apply_items(r.ctx, overwrite_context, Tail(keys), in_dictionary_variable)

apply_overwrites_to_context(ctx, overwrite_context, in_dictionary_variable) ==
    apply_items(ctx, overwrite_context, ItemsOrder(overwrite_context),
                in_dictionary_variable)

vars == <<genVars, ctxVars, hookVars, cloneVars, unzipVars>>

CtxIdle ==
    /\ manifestShape = "object"
    /\ manifest = NoDict
    /\ default_context = NoDict
    /\ extra_context = NoDict
    /\ gcContext = NoDict
    /\ gcKind = "mapping"
    /\ gcPc = "idle"
    /\ gcRaised = "none"

GenIdle ==
    /\ overwrite_if_exists = FALSE
    /\ skip_if_file_exists = FALSE
    /\ accept_hooks = FALSE
    /\ keep_project_on_failure = FALSE
    /\ context = [cookiecutter |-> Manifest(R_proj, <<>>)]
    /\ template = {}
    /\ hookScript = "none"
    /\ output_dir = <<>>
    /\ fs0 = [dirs |-> {<<>>}, files |-> NoFiles]
    /\ dirs = fs0.dirs
    /\ files = fs0.files
    /\ cwd = "caller"
    /\ pc = "idle"
    /\ project_dir = NoPath
    /\ stack = <<>>
    /\ root = NoPath
    /\ dirsL = <<>>
    /\ pdirs = <<>>
    /\ pfiles = <<>>
    /\ raised = NoExc
    /\ result = NoPath
    /\ renderCalls = {}

\* The shapes of a manifest file: an object, a list holding one object,
\* text that is not JSON, a number, a text, an empty list, a list of two
\* objects, a list holding one number.
ValidShapes == {"object", "list_of_object"}
Shapes ==
    ValidShapes \cup {"invalid_json", "number", "string", "empty_list",
                      "list_of_objects", "list_of_number"}
HasObject(shape) == shape \in ValidShapes \cup {"list_of_objects"}

InitContext ==
    /\ GenIdle
    /\ UnzipIdle
    /\ HookIdle
    /\ CloneIdle
    /\ manifestShape \in ValidShapes
    /\ manifest \in Dicts("m")
    /\ default_context \in Dicts("d")
    /\ extra_context \in Dicts("e")
    /\ gcContext = NoDict
    /\ gcKind = "mapping"
    /\ gcPc = "load"
    /\ gcRaised = "none"

\* The try block of generate_context: json.load, then
\* context = obj if isinstance(obj, dict) else obj[0]; only ValueError is
\* turned into ContextDecodingException.
load_context(shape, obj) ==
    IF shape = "invalid_json"
    THEN [err |-> "ContextDecodingException", kind |-> "mapping", ctx |-> NoDict]
    ELSE IF shape = "object"
    THEN [err |-> "none", kind |-> "mapping", ctx |-> obj]
    ELSE IF shape = "number"
    THEN [err |-> "TypeError", kind |-> "mapping", ctx |-> NoDict]
    ELSE IF shape = "empty_list"
    THEN [err |-> "IndexError", kind |-> "mapping", ctx |-> NoDict]
    ELSE IF shape = "string"
    THEN [err |-> "none", kind |-> "text", ctx |-> NoDict]
    ELSE IF shape = "list_of_number"
    THEN [err |-> "none", kind |-> "number", ctx |-> NoDict]
    ELSE [err |-> "none", kind |-> "mapping", ctx |-> obj]

LoadManifest ==
    /\ gcPc = "load"
    /\ LET r == load_context(manifestShape, manifest)
       IN  IF r.err # "none"
           THEN /\ gcRaised' = r.err
                /\ gcPc' = "raised"
                /\ UNCHANGED <<gcContext, gcKind>>
           ELSE /\ gcContext' = r.ctx
                /\ gcKind' = r.kind
                /\ gcPc' = "defaults"
                /\ UNCHANGED gcRaised
    /\ UNCHANGED <<ctxInputs, notCtx>>

\* apply_overwrites_to_context on the value bound to "context": item
\* assignment and the membership test fail on a text or a number.
apply_to_context(kind, ctx, overwrite_context) ==
    IF DOMAIN overwrite_context = {}
    THEN [err |-> "none", ctx |-> ctx]
    ELSE IF kind # "mapping"
    THEN [err |-> "TypeError", ctx |-> ctx]
    ELSE apply_overwrites_to_context(ctx, overwrite_context, FALSE)

\* if default_context: apply_overwrites_to_context(context, default_context)
ApplyDefaultContext ==
    /\ gcPc = "defaults"
    /\ LET r == apply_to_context(gcKind, gcContext, default_context)
       IN  IF r.err # "none"
           THEN gcRaised' = r.err /\ gcPc' = "raised" /\ UNCHANGED gcContext
           ELSE gcContext' = r.ctx /\ gcPc' = "extra" /\ UNCHANGED gcRaised
    /\ UNCHANGED <<ctxInputs, gcKind, notCtx>>

\* if extra_context: apply_overwrites_to_context(context, extra_context); return
ApplyExtraContext ==
    /\ gcPc = "extra"
    /\ LET r == apply_to_context(gcKind, gcContext, extra_context)
       IN  IF r.err # "none"
           THEN gcRaised' = r.err /\ gcPc' = "raised" /\ UNCHANGED gcContext
           ELSE gcContext' = r.ctx /\ gcPc' = "done" /\ UNCHANGED gcRaised
    /\ UNCHANGED <<ctxInputs, gcKind, notCtx>>

NextContext ==
    \/ LoadManifest
    \/ ApplyDefaultContext
    \/ ApplyExtraContext

SpecContext == InitContext /\ [][NextContext]_vars

\* generate_context over every shape of manifest file.
ManifestOverrides(tag) == {NoDict, [k \in {"a"} |-> VStr(tag)]}

InitManifest ==
    /\ GenIdle
    /\ UnzipIdle
    /\ HookIdle
    /\ CloneIdle
    /\ manifestShape \in Shapes
    /\ manifest \in IF HasObject(manifestShape) THEN Dicts("m") ELSE {NoDict}
    /\ default_context \in ManifestOverrides("d")
    /\ extra_context \in ManifestOverrides("e")
    /\ gcContext = NoDict
    /\ gcKind = "mapping"
    /\ gcPc = "load"
    /\ gcRaised = "none"

SpecManifest == InitManifest /\ [][NextContext]_vars

\* ================================================================ run_hook
MaxHookFiles == 2

_HOOKS == {"pre_prompt", "pre_gen_project", "post_gen_project"}

\* A file of the hooks directory; its name is stem, tail and ext put together.
HookFile(stem, tail, ext) == [stem |-> stem, tail |-> tail, ext |-> ext]

HookFileUniverse ==
    { HookFile("pre_prompt", "", ".sh"),
      HookFile("pre_gen_project", "", ".py"),
      HookFile("pre_gen_project", "_backup", ".py"),
      HookFile("post_gen_project", "", ".sh"),
      HookFile("post_gen_project", "", ".pyc"),
      HookFile("README", "", ".txt") }

HookListings == {l \in SUBSET HookFileUniverse : Cardinality(l) <= MaxHookFiles}

HookTexts == {C_old, C_expr, C_undef, C_syntax}

HookExits == {"exit0", "exit1", "oserror"}

HookContext == [cookiecutter |-> Manifest(R_proj, <<>>)]

\* No stem of the universe is a proper prefix of a hook name or the reverse,
\* so the name starts with hook_name exactly when the stem is hook_name.
valid_hook(hook_file, name) ==
    /\ hook_file.stem = name
    /\ hook_file.ext \in {".py", ".sh"}
    /\ ~(hook_file.tail = "" /\ hook_file.ext = ".pyc")

\* The values find_hook can return: NoFile for None, else the first valid
\* file in the order os.listdir happens to give.
find_hook(name, dirExists, listing) ==
    LET valid == {f \in listing : valid_hook(f, name)}
    IN  IF ~dirExists \/ valid = {} THEN {NoFile} ELSE valid

\* The exception run_script ends in: a non-zero exit status is reported as
\* FailedHookException, a script the system cannot start as OSError.
run_script(exit) ==
    IF exit = "exit1" THEN "FailedHookException"
    ELSE IF exit = "oserror" THEN "OSError"
    ELSE "none"

\* unlink_temp that removes the temporary script only after a successful run.
unlink_temp_on_success(temps, t, exc) ==
    IF exc = "none" THEN temps \ {t} ELSE temps

\* The finally clause of run_script_with_context.
unlink_temp(temps, t, exc) ==
    temps \ {t}

InitHook ==
    /\ GenIdle
    /\ UnzipIdle
    /\ CtxIdle
    /\ CloneIdle
    /\ hook_name \in _HOOKS
    /\ hooksDirExists \in BOOLEAN
    /\ hooksListing \in IF hooksDirExists THEN HookListings ELSE {{}}
    /\ hookText \in HookTexts
    /\ hookExit \in HookExits
    /\ script_path = NoFile
    /\ hkTemp = {}
    /\ hkExecuted = <<>>
    /\ hkPc = "find"
    /\ hkRaised = "none"

\* script_path = find_hook(hook_name); if script_path: ...
FindHook ==
    /\ hkPc = "find"
    /\ \E p \in find_hook(hook_name, hooksDirExists, hooksListing) :
          /\ script_path' = p
          /\ hkPc' = IF p = NoFile THEN "done"
                     ELSE IF hook_name = "pre_prompt" THEN "direct"
                     ELSE "render"
    /\ UNCHANGED <<hookInputs, hkTemp, hkExecuted, hkRaised, notHook>>

\* run_script(script_path, project_dir) on the hook file itself.
RunScriptDirect ==
    /\ hkPc = "direct"
    /\ hkExecuted' = Append(hkExecuted, [script |-> "hook_file", text |-> hookText,
                                         cwd |-> "project_dir"])
    /\ hkRaised' = run_script(hookExit)
    /\ hkPc' = IF run_script(hookExit) = "none" THEN "done" ELSE "raised"
    /\ UNCHANGED <<hookInputs, script_path, hkTemp, notHook>>

\* run_script_with_context up to the with block: render the script text and
\* write it to a temporary file that outlives the block (delete=False).
RenderHookScript ==
    /\ hkPc = "render"
    /\ LET r == Render(hookText, HookContext)
       IN  IF r.err = "UndefinedError"
           THEN hkRaised' = "FailedHookException" /\ hkPc' = "raised" /\ UNCHANGED hkTemp
           ELSE IF r.err # "none"
           THEN hkRaised' = r.err /\ hkPc' = "raised" /\ UNCHANGED hkTemp
           ELSE hkTemp' = hkTemp \cup {r.out} /\ hkPc' = "run_temp" /\ UNCHANGED hkRaised
    /\ UNCHANGED <<hookInputs, script_path, hkExecuted, notHook>>

\* try: run_script(temp_script.name, cwd) finally: os.unlink(temp_script.name)
RunRenderedScript ==
    /\ hkPc = "run_temp"
    /\ \E t \in hkTemp :
          /\ hkExecuted' = Append(hkExecuted, [script |-> "temp", text |-> t,
                                               cwd |-> "project_dir"])
          /\ hkTemp' = unlink_temp(hkTemp, t, run_script(hookExit))
    /\ hkRaised' = run_script(hookExit)
    /\ hkPc' = IF run_script(hookExit) = "none" THEN "done" ELSE "raised"
    /\ UNCHANGED <<hookInputs, script_path, notHook>>

NextHook ==
    \/ FindHook
    \/ RunScriptDirect
    \/ RenderHookScript
    \/ RunRenderedScript

SpecHook == InitHook /\ [][NextHook]_vars

\* =================================================================== clone
\* A repository URL, by what identify_repo looks at: its prefix ("git+",
\* "hg+" or neither), whether the text after the prefix contains "git" (which
\* covers ending in ".git"), and whether it contains "bitbucket".
Url(prefix, git, bitbucket) == [prefix |-> prefix, git |-> git, bitbucket |-> bitbucket]

Urls == {Url(p, g, b) : p \in {"", "git+", "hg+"}, g \in BOOLEAN, b \in BOOLEAN}

\* The value identify_repo returns: none stands for None.
Identified(type, url) == [none |-> FALSE, type |-> type, url |-> url]
NotIdentified == [none |-> TRUE, type |-> "none", url |-> NoUrl]

identify_repo(url) ==
    IF url.prefix = "git+" THEN Identified("git", Url("", url.git, url.bitbucket))
    ELSE IF url.prefix = "hg+" THEN Identified("hg", Url("", url.git, url.bitbucket))
    ELSE IF url.git THEN Identified("git", url)
    ELSE IF url.bitbucket THEN Identified("hg", url)
    ELSE NotIdentified

Command(prog, args) == [prog |-> prog, args |-> args]

InitClone ==
    /\ GenIdle
    /\ UnzipIdle
    /\ CtxIdle
    /\ HookIdle
    /\ repo_url \in Urls
    /\ checkout \in {"", "main"}
    /\ no_input \in BOOLEAN
    /\ installed \in SUBSET {"git", "hg"}
    /\ answers \in [delete : BOOLEAN, reuse : BOOLEAN]
    /\ cloneExit \in {"exit0", "exit1"}
    /\ checkoutExit \in {"exit0", "branch_error", "other_error"}
    /\ clFs0 \in {[clone_to_dir |-> FALSE, repo_dir |-> FALSE],
                  [clone_to_dir |-> TRUE, repo_dir |-> FALSE],
                  [clone_to_dir |-> TRUE, repo_dir |-> TRUE]}
    /\ clFs = clFs0
    /\ repo_type = "none"
    /\ clSubprocesses = <<>>
    /\ clPrompts = <<>>
    /\ clPc = "start"
    /\ clRaised = "none"
    /\ clResult = FALSE

\* repo_type, repo_url = identify_repo(repo_url): unpacking None raises
\* TypeError, so the test "repo_type is None" only ever sees a type.  Then
\* is_vcs_installed starts "<repo_type> --version".
CloneIdentify ==
    /\ clPc = "start"
    /\ LET r == identify_repo(repo_url)
       IN  IF r.none
           THEN /\ clRaised' = "TypeError"
                /\ clPc' = "raised"
                /\ UNCHANGED <<repo_type, clSubprocesses>>
           ELSE /\ repo_type' = r.type
                /\ clSubprocesses' = Append(clSubprocesses, Command(r.type, "--version"))
                /\ IF r.type \in installed
                   THEN clPc' = "mkdir" /\ UNCHANGED clRaised
                   ELSE clPc' = "raised" /\ clRaised' = "VCSNotInstalled"
    /\ UNCHANGED <<cloneInputs, clFs, clPrompts, clResult, notClone>>

\* make_sure_path_exists(clone_to_dir); repo_dir = clone_to_dir / name
CloneMakeDir ==
    /\ clPc = "mkdir"
    /\ clFs' = [clFs EXCEPT !.clone_to_dir = TRUE]
    /\ clPc' = IF clFs.repo_dir /\ ~no_input THEN "prompt" ELSE "clone"
    /\ UNCHANGED <<cloneInputs, repo_type, clSubprocesses, clPrompts, clRaised,
                   clResult, notClone>>

\* if not prompt_and_delete(repo_dir): return str(repo_dir)
ClonePrompt ==
    /\ clPc = "prompt"
    /\ IF answers.delete
       THEN /\ clPrompts' = Append(clPrompts, "delete")
            /\ clFs' = [clFs EXCEPT !.repo_dir = FALSE]
            /\ clPc' = "clone"
            /\ UNCHANGED <<clRaised, clResult>>
       ELSE /\ clPrompts' = clPrompts \o <<"delete", "reuse">>
            /\ UNCHANGED clFs
            /\ IF answers.reuse
               THEN clPc' = "returned" /\ clResult' = TRUE /\ UNCHANGED clRaised
               ELSE clPc' = "raised" /\ clRaised' = "SystemExit" /\ UNCHANGED clResult
    /\ UNCHANGED <<cloneInputs, repo_type, clSubprocesses, notClone>>

\* subprocess.run(clone_cmd, check=True, ...)
CloneRun ==
    /\ clPc = "clone"
    /\ clSubprocesses' = Append(clSubprocesses, Command(repo_type, "clone"))
    /\ IF cloneExit # "exit0"
       THEN /\ clPc' = "raised"
            /\ clRaised' = "RepositoryCloneFailed"
            /\ UNCHANGED <<clFs, clResult>>
       ELSE /\ clFs' = [clFs EXCEPT !.repo_dir = TRUE]
            /\ UNCHANGED clRaised
            /\ IF checkout # "" /\ repo_type = "git"
               THEN clPc' = "checkout" /\ UNCHANGED clResult
               ELSE clPc' = "returned" /\ clResult' = TRUE
    /\ UNCHANGED <<cloneInputs, repo_type, clPrompts, notClone>>

\* git checkout <checkout>; on a branch error, git checkout -b <checkout>,
\* whose failure nothing catches.
CloneCheckout ==
    /\ clPc = "checkout"
    /\ IF checkoutExit = "exit0"
       THEN /\ clSubprocesses' = Append(clSubprocesses, Command("git", "checkout"))
            /\ clPc' = "returned" /\ clResult' = TRUE /\ UNCHANGED clRaised
       ELSE IF checkoutExit = "other_error"
       THEN /\ clSubprocesses' = Append(clSubprocesses, Command("git", "checkout"))
            /\ clPc' = "raised" /\ clRaised' = "RepositoryCloneFailed"
            /\ UNCHANGED clResult
       ELSE /\ clSubprocesses' = clSubprocesses \o <<Command("git", "checkout"),
                                                     Command("git", "checkout -b")>>
            /\ \E ok \in BOOLEAN :
                  IF ok
                  THEN clPc' = "returned" /\ clResult' = TRUE /\ UNCHANGED clRaised
                  ELSE /\ clPc' = "raised" /\ clRaised' = "CalledProcessError"
                       /\ UNCHANGED clResult
    /\ UNCHANGED <<cloneInputs, clFs, repo_type, clPrompts, notClone>>

NextClone ==
    \/ CloneIdentify
    \/ CloneMakeDir
    \/ ClonePrompt
    \/ CloneRun
    \/ CloneCheckout

SpecClone == InitClone /\ [][NextClone]_vars

\* =================================================================== unzip
\* A directory is "absent" or named by what it holds: "old" for what an
\* earlier download left, "inner" for the contents of the archive's single
\* top-level directory, "all" for everything the archive holds.

\* utils.rmtree(path): removes the directory tree.
rmtree(dir) == "absent"

\* shutil.rmtree(path): fails on a path that does not exist.
shutil_rmtree(dir) ==
    IF dir = "absent"
    THEN [err |-> "FileNotFoundError", dir |-> dir]
    ELSE [err |-> "none", dir |-> "absent"]

\* prompt_and_delete(path, no_input): what it returns ("exit" for sys.exit()),
\* the directory afterwards, whether it deleted it and what it asked.
prompt_and_delete(dir, noInput, ans) ==
    IF noInput
    THEN [called |-> TRUE, ret |-> "true", deleted |-> TRUE, asked |-> <<>>,
          dir |-> rmtree(dir)]
    ELSE IF ans.delete
    THEN [called |-> TRUE, ret |-> "true", deleted |-> TRUE, asked |-> <<"delete">>,
          dir |-> rmtree(dir)]
    ELSE IF ans.reuse
    THEN [called |-> TRUE, ret |-> "false", deleted |-> FALSE,
          asked |-> <<"delete", "reuse">>, dir |-> dir]
    ELSE [called |-> TRUE, ret |-> "exit", deleted |-> FALSE,
          asked |-> <<"delete", "reuse">>, dir |-> dir]

PromptOf(p) == [called |-> p.called, ret |-> p.ret, deleted |-> p.deleted, asked |-> p.asked]

\* The body of "if destination.exists()": no_input short-circuits the call
\* of prompt_and_delete; a true condition is followed by shutil.rmtree.
\* next is "copy" to go on, "return" to return the path, "raise" to fail.
existing_destination(dir, noInput, ans) ==
    IF noInput
    THEN LET r == shutil_rmtree(dir)
         IN  [next |-> IF r.err = "none" THEN "copy" ELSE "raise", exc |-> r.err,
              dir |-> r.dir, removals |-> IF r.err = "none" THEN 1 ELSE 0,
              prompt |-> NoPrompt]
    ELSE LET p == prompt_and_delete(dir, noInput, ans)
             n == IF p.deleted THEN 1 ELSE 0
         IN  IF p.ret = "exit"
             THEN [next |-> "raise", exc |-> "SystemExit", dir |-> p.dir,
                   removals |-> n, prompt |-> PromptOf(p)]
             ELSE IF p.ret = "false"
             THEN [next |-> "return", exc |-> "none", dir |-> p.dir,
                   removals |-> n, prompt |-> PromptOf(p)]
             ELSE LET r == shutil_rmtree(p.dir)
                  IN  [next |-> IF r.err = "none" THEN "copy" ELSE "raise",
                       exc |-> r.err, dir |-> r.dir,
                       removals |-> n + (IF r.err = "none" THEN 1 ELSE 0),
                       prompt |-> PromptOf(p)]

InitUnzip ==
    /\ GenIdle
    /\ CtxIdle
    /\ HookIdle
    /\ CloneIdle
    /\ is_url \in BOOLEAN
    /\ uzNoInput \in BOOLEAN
    /\ zipValid \in BOOLEAN
    /\ zipLayout \in {"single_dir", "flat"}
    /\ uzAnswers \in [delete : BOOLEAN, reuse : BOOLEAN]
    /\ uzDest0 \in {"absent", "old"}
    /\ uzDest = uzDest0
    /\ uzSource = "none"
    /\ uzTempFile = FALSE
    /\ uzTempDir = FALSE
    /\ uzRemovals = 0
    /\ uzPrompt = NoPrompt
    /\ uzPc = "start"
    /\ uzRaised = "none"
    /\ uzResult = FALSE

\* if is_url: download the archive into a temporary file that is kept.
UnzipFetch ==
    /\ uzPc = "start"
    /\ uzTempFile' = is_url
    /\ uzPc' = "extract"
    /\ UNCHANGED <<unzipInputs, uzDest, uzSource, uzTempDir, uzRemovals, uzPrompt,
                   uzRaised, uzResult, notUnzip>>

\* Enter the temporary directory, extract, choose source_dir.  BadZipFile
\* becomes InvalidZipRepository; leaving the with block removes the directory.
UnzipExtract ==
    /\ uzPc = "extract"
    /\ IF ~zipValid
       THEN /\ uzRaised' = "InvalidZipRepository"
            /\ uzPc' = "raised"
            /\ UNCHANGED <<uzSource, uzTempDir>>
       ELSE /\ uzSource' = IF zipLayout = "single_dir" THEN "inner" ELSE "all"
            /\ uzTempDir' = TRUE
            /\ uzPc' = IF uzDest # "absent" THEN "existing" ELSE "copy"
            /\ UNCHANGED uzRaised
    /\ UNCHANGED <<unzipInputs, uzDest, uzTempFile, uzRemovals, uzPrompt, uzResult,
                   notUnzip>>

\* if destination.exists(): ...
UnzipExisting ==
    /\ uzPc = "existing"
    /\ LET r == existing_destination(uzDest, uzNoInput, uzAnswers)
       IN  /\ uzDest' = r.dir
           /\ uzRemovals' = uzRemovals + r.removals
           /\ uzPrompt' = r.prompt
           /\ IF r.next = "copy"
              THEN uzPc' = "copy" /\ UNCHANGED <<uzTempDir, uzRaised, uzResult>>
              ELSE IF r.next = "return"
              THEN /\ uzPc' = "returned" /\ uzResult' = TRUE /\ uzTempDir' = FALSE
                   /\ UNCHANGED uzRaised
              ELSE /\ uzPc' = "raised" /\ uzRaised' = r.exc /\ uzTempDir' = FALSE
                   /\ UNCHANGED uzResult
    /\ UNCHANGED <<unzipInputs, uzSource, uzTempFile, notUnzip>>

\* shutil.copytree(source_dir, destination); leave the with block; unlink the
\* downloaded file; return str(destination).
UnzipCopy ==
    /\ uzPc = "copy"
    /\ uzDest' = uzSource
    /\ uzTempDir' = FALSE
    /\ uzTempFile' = FALSE
    /\ uzPc' = "returned"
    /\ uzResult' = TRUE
    /\ UNCHANGED <<unzipInputs, uzSource, uzRemovals, uzPrompt, uzRaised, notUnzip>>

NextUnzip ==
    \/ UnzipFetch
    \/ UnzipExtract
    \/ UnzipExisting
    \/ UnzipCopy

SpecUnzip == InitUnzip /\ [][NextUnzip]_vars

\* ========================================================= generate_files
Init == InitGen /\ CtxIdle /\ HookIdle /\ CloneIdle /\ UnzipIdle

Spec == Init /\ [][Next]_vars

\* ================================================================= claims
\* The project directory the caller asked for, and the directory the path
\* string project_dir names during the walk, inside work_in(repo_dir).
ProjectDir == Resolve(project_dir, "caller")
WalkProjectDir == Resolve(project_dir, "repo_dir")

\* The output file of template file f, once project_dir is known.
Dest(f) == WalkProjectDir \o RenderPath(f.path, context).out

\* The run has written p: it holds content it did not hold at the call.
Written(p) ==
    /\ p \in DOMAIN files
    /\ p \notin DOMAIN fs0.files \/ files[p] # fs0.files[p]

TemplateErrors == {"UndefinedError", "TemplateSyntaxError"}

\* The walk failed in the file loop: the failing file is still Head(pfiles).
FailedInFileLoop == pc = "raised_walk" /\ pdirs = <<>> /\ pfiles # <<>>

\* C1: with rollback enabled, when rendering a file's content fails on an
\* undefined variable, generate_files raises UndefinedVariableInTemplate and
\* the project directory no longer exists.
C1_RollbackOnUndefinedContent ==
    ( /\ FailedInFileLoop
      /\ ~keep_project_on_failure
      /\ Head(pfiles).path \in renderCalls
      /\ Render(Head(pfiles).content, context).err = "UndefinedError" )
    => /\ raised.type = "UndefinedVariableInTemplate"
       /\ ProjectDir \notin dirs

\* C2: with rollback disabled, when materializing a file fails, the caller
\* receives the originating error (the template or OS error itself, or
\* UndefinedVariableInTemplate carrying it), the project directory exists and
\* every file written before the failure keeps its content.
IsOriginating(exc) ==
    \/ exc.type \in TemplateErrors \cup {"FileNotFoundError"}
    \/ exc.type = "UndefinedVariableInTemplate" /\ exc.error \in TemplateErrors

C2_KeepOnFileFailure ==
    [][ ( /\ pc = "root" /\ pc' = "raised_walk"
          /\ pdirs = <<>>
          /\ keep_project_on_failure )
        => /\ IsOriginating(raised')
           /\ ProjectDir \in dirs'
           /\ \A p \in DOMAIN files : p \in DOMAIN files' /\ files'[p] = files[p] ]_vars

\* C3: when the post_gen_project hook script exits non-zero, generate_files
\* raises FailedHookException and the project directory is deleted exactly
\* when keep_project_on_failure is False.
C3_HookFailureRollback ==
    (pc = "raised_hook" /\ hookScript = "exit1")
    => /\ raised.type = "FailedHookException"
       /\ keep_project_on_failure => ProjectDir \in dirs
       /\ ~keep_project_on_failure => ProjectDir \notin dirs

\* C4: with rollback enabled, whichever step of the walk fails, the project
\* directory has been deleted when the error reaches the caller.
C4_RollbackOnAnyWalkFailure ==
    (pc = "raised_walk" /\ ~keep_project_on_failure) => ProjectDir \notin dirs

\* C5: if overwrite_if_exists is False and the rendered project directory
\* already exists, generate_files fails with OutputDirExistsException before
\* the walk and leaves the filesystem as it was.
RootRender == Render(context["cookiecutter"]["_template"], context)

C5_OutputDirExists ==
    ( /\ pc \notin {"start", "idle"}
      /\ ~overwrite_if_exists
      /\ RootRender.err = "none"
      /\ PathExists(<<RootRender.out>>, fs0.dirs, fs0.files) )
    => /\ pc = "raised_root"
       /\ raised.type = "OutputDirExistsException"
       /\ dirs = fs0.dirs
       /\ files = fs0.files

C5_Witness ==
    /\ pc = "raised_root"
    /\ raised.type = "OutputDirExistsException"
    /\ ~overwrite_if_exists
    /\ DOMAIN fs0.files # {}
    /\ files = fs0.files

\* C6: whenever a step writes an output file, the directory containing the
\* destination exists by the time of the write, and no write fails for want
\* of its parent directory.
C6_DirsBeforeFiles ==
    [][ /\ \A p \in DOMAIN files' :
              (p \notin DOMAIN files \/ files'[p] # files[p]) => Parent(p) \in dirs'
        /\ pc' = "raised_walk" => raised'.type # "FileNotFoundError" ]_vars

\* C7: with skip_if_file_exists, every destination that existed before the
\* call keeps its content, on copy-only paths too.
C7_SkipKeepsExisting ==
    skip_if_file_exists
    => \A p \in DOMAIN fs0.files : p \in DOMAIN files /\ files[p] = fs0.files[p]

\* C8: a template file matching a pattern of the manifest's
\* _copy_without_render list (context["cookiecutter"]) is never handed to the
\* content renderer, and when written holds the source bytes.
ManifestCopyOnly(f) ==
    LET cwr == context["cookiecutter"]["_copy_without_render"]
    IN  \E i \in 1..Len(cwr) : Fnmatch(f.path, cwr[i])

C8_ManifestCopyWithoutRender ==
    \A f \in template :
        ManifestCopyOnly(f)
        => /\ f.path \notin renderCalls
           /\ (RenderPath(f.path, context).err = "none" /\ Written(Dest(f)))
              => files[Dest(f)] = f.content

\* C9: a binary template file is never handed to the content renderer, and
\* when written holds the source bytes, whether or not its path has
\* expressions.
C9_BinaryVerbatim ==
    \A f \in template :
        f.binary
        => /\ f.path \notin renderCalls
           /\ (RenderPath(f.path, context).err = "none" /\ Written(Dest(f)))
              => files[Dest(f)] = f.content

C9_Witness ==
    \E f \in template :
        /\ f.binary
        /\ ~is_copy_only_path(f.path, context)
        /\ \E i \in 1..Len(f.path) : \E j \in 1..Len(f.path[i]) : f.path[i][j].k = "var"
        /\ Render(f.content, context).err # "none"
        /\ Written(Dest(f))
        /\ files[Dest(f)] = f.content

\* -------------------------------------------------------- generate_context
IsScalar(v) == v.t \in {"str", "int"}

Overrides(k) ==
    IF k \in DOMAIN extra_context THEN extra_context[k]
    ELSE IF k \in DOMAIN default_context THEN default_context[k]
    ELSE manifest[k]

AllKeys == DOMAIN manifest \cup DOMAIN default_context \cup DOMAIN extra_context

ListPart(src, k) == IF k \in DOMAIN src /\ src[k].t = "list" THEN src[k].l ELSE <<>>

AppliedOverrides ==
    IF gcPc = "defaults" THEN default_context
    ELSE IF gcPc = "extra" THEN extra_context
    ELSE NoDict

\* The merge rule spec section 4.1 gives for key k, read off the value old
\* the context holds before the step and the value new it holds after it.
RuleOfExisting(old, new, ov, k) ==
    IF old[k].t = "dict"
    THEN /\ new[k].t = "dict"
         /\ ov[k].t = "dict" =>
               \A n \in DOMAIN ov[k].d : new[k].d[n] = ov[k].d[n]
    ELSE IF old[k].t = "list"
    THEN /\ new[k].t = "list"
         /\ IsPrefix(old[k].l, new[k].l)
    ELSE /\ new[k].t = "str"
         /\ IsScalar(ov[k]) => new[k] = StrOf(ov[k])

\* A step that applies overrides follows the rule of the existing value.
AppliesByExistingType ==
    gcPc \in {"defaults", "extra"} =>
        /\ gcPc' # "raised"
        /\ \A k \in DOMAIN AppliedOverrides \cap DOMAIN gcContext :
              RuleOfExisting(gcContext, gcContext', AppliedOverrides, k)

\* C11: apply_overwrites_to_context picks the merge rule of each override
\* key from the type of the value the context already holds: an existing
\* mapping is merged recursively (nested scalars kept raw), an existing list
\* gets the override's items appended, anything else is replaced by the
\* override as text; for every pair of existing and override type, so no
\* pair makes the call fail.
C11_RuleByExistingType == [][AppliesByExistingType]_vars

\* C12: generate_context raises ContextDecodingException, and changes nothing
\* on disk, for every manifest file that is not valid JSON or whose top-level
\* value is neither an object nor a list of exactly one object; it returns
\* only for those two shapes.
C12_WrongShapeIsDecodingError ==
    /\ gcPc # "load" /\ manifestShape \notin ValidShapes =>
          gcPc = "raised" /\ gcRaised = "ContextDecodingException"
    /\ gcRaised = "ContextDecodingException" => manifestShape \notin ValidShapes
    /\ dirs = fs0.dirs /\ files = fs0.files

\* generate_files ended on a template that failed to render: the name of the
\* project directory, the name of the directory or the path of the file the
\* walk stopped at, or the content of that file.
TemplateFailure ==
    \/ pc = "raised_root" /\ RootRender.err # "none"
    \/ /\ pc = "raised_walk" /\ pdirs # <<>>
       /\ RenderPath(Head(pdirs), context).err # "none"
    \/ /\ FailedInFileLoop
       /\ \/ RenderPath(Head(pfiles).path, context).err # "none"
          \/ /\ Head(pfiles).path \in renderCalls
             /\ Render(Head(pfiles).content, context).err # "none"

\* Every UndefinedVariableInTemplate the code builds is given the context as
\* its third argument, so the type tells that the context is carried.
CarriesContext(exc) == exc.type = "UndefinedVariableInTemplate"

\* C13: a path or content template that has an unresolved variable or a
\* syntax error reaches the caller of generate_files as
\* UndefinedVariableInTemplate carrying the offending path, the underlying
\* template error and the context, for the project directory name, directory
\* names, file paths and file contents alike.
C13_TemplateErrorsAreWrapped ==
    TemplateFailure =>
        /\ raised.type = "UndefinedVariableInTemplate"
        /\ raised.error \in TemplateErrors
        /\ raised.path # NoPath
        /\ CarriesContext(raised)

\* C14: when generate_files returns, the value returned is the absolute path
\* of the generated project directory, whether output_dir was absolute or
\* relative.
C14_ReturnsAbsoluteProjectDir ==
    pc = "returned" =>
        /\ IsAbsolute(result)
        /\ result = ProjectDir
        /\ result \in dirs

\* The phases follow each other in order, the hook phase is entered only
\* from a finished walk with accept_hooks, a run without accept_hooks returns
\* from the walk, and the hook phase runs the post_gen_project script: a
\* missing or succeeding script lets generate_files return project_dir, a
\* failing one ends in FailedHookException.
PhasesInOrder ==
    /\ pc' = "walk" => pc \in {"start", "root", "walk"}
    /\ pc' = "hook" => pc \in {"walk", "hook"} /\ accept_hooks /\ stack = <<>>
    /\ pc' = "returned" =>
          \/ pc = "walk" /\ ~accept_hooks /\ stack = <<>>
          \/ pc = "hook"
          \/ pc = "returned"
    /\ pc = "hook" /\ hookScript # "exit1" =>
          pc' = "returned" /\ result' = project_dir
    /\ pc = "hook" /\ hookScript = "exit1" =>
          pc' = "raised_hook" /\ raised'.type = "FailedHookException"
    /\ pc = "hook" => UNCHANGED <<dirs, files>> \/ pc' = "raised_hook"

\* C15: the phases of generate_files occur in the order project directory
\* created, tree walked, hook run, result returned; the post_gen_project hook
\* is invoked exactly when accept_hooks is True and the walk finished without
\* a failure, after the last file write.
C15_HookAfterSuccessfulWalk == [][PhasesInOrder]_vars

\* C16: once generate_files has returned or raised, whether it succeeded,
\* failed in the walk or failed in the hook, the working directory is the one
\* the caller had when calling it.
C16_WorkingDirectoryRestored ==
    pc \in {"returned", "raised_root", "raised_walk", "raised_hook"} => cwd = "caller"

\* The walk failed inside work_in(repo_dir) and the caller is back in its
\* own directory.
C16_Witness ==
    /\ pc = "raised_walk"
    /\ project_dir # NoPath
    /\ raised.type # "none"
    /\ cwd = "caller"

\* The error of a failed materialization step, as it is or wrapped.
IsFirstError(exc) ==
    \/ IsOriginating(exc)
    \/ exc.type = "OutputDirExistsException"

\* The entry the walk is at cannot be materialized: its name does not render.
StepFails ==
    /\ pc = "root"
    /\ \/ pdirs # <<>> /\ RenderPath(Head(pdirs), context).err # "none"
       \/ /\ pdirs = <<>> /\ pfiles # <<>>
          /\ RenderPath(Head(pfiles).path, context).err # "none"

FirstFailureHalts ==
    /\ StepFails => pc' = "raised_walk" /\ UNCHANGED <<dirs, files>>
    /\ pc = "root" /\ pc' = "raised_walk" => IsFirstError(raised')
    /\ pc = "raised_walk" => UNCHANGED <<dirs, files, raised, pc>>

\* C17: the first failure halts the walk: a step of the walk that fails
\* creates and writes nothing, nothing is created or written after it, it is
\* not skipped over, and the caller receives the error of that step (as it is
\* or wrapped), not a different one.
C17_FirstFailureHaltsTheWalk == [][FirstFailureHalts]_vars

\* C18: generate_files never changes the context it was given: every step,
\* whether it creates a directory, materializes a file, runs the hook or
\* raises, leaves every key and nested value of the context as it was.
C18_ContextIsReadOnly == [][context' = context]_vars

\* A run that rendered a file from the context and returned.
C18_Witness ==
    /\ pc = "returned"
    /\ \E f \in template : f.path \in renderCalls /\ Written(Dest(f))

HookFound == hooksDirExists /\ \E f \in hooksListing : valid_hook(f, hook_name)

\* C19: run_hook runs a found pre_prompt script as it is, without rendering
\* it; runs any other found hook only as a temporary script holding the text
\* rendered against the context; has removed that temporary script when it
\* returns or raises, whether the script succeeded or failed; and executes
\* nothing and raises nothing when no hook script is found.
C19_HookExecution ==
    /\ \A i \in 1..Len(hkExecuted) :
          IF hook_name = "pre_prompt"
          THEN hkExecuted[i].script = "hook_file" /\ hkExecuted[i].text = hookText
          ELSE /\ hkExecuted[i].script = "temp"
               /\ Render(hookText, HookContext).err = "none"
               /\ hkExecuted[i].text = Render(hookText, HookContext).out
    /\ hkPc \in {"done", "raised"} => hkTemp = {}
    /\ hkPc \in {"done", "raised"} /\ HookFound =>
          \/ Len(hkExecuted) = 1
          \/ hook_name # "pre_prompt" /\ Render(hookText, HookContext).err # "none"
    /\ hkPc # "find" /\ ~HookFound =>
          hkPc = "done" /\ hkExecuted = <<>> /\ hkRaised = "none"

\* A rendered hook script was run from its temporary file, failed, and the
\* temporary file is gone.
C19_Witness ==
    /\ hkPc = "raised"
    /\ hkRaised = "FailedHookException"
    /\ hook_name = "post_gen_project"
    /\ hookText = C_expr
    /\ Len(hkExecuted) = 1
    /\ hkExecuted[1].script = "temp"
    /\ hkExecuted[1].text # hookText
    /\ hkTemp = {}

\* identify_repo finds no prefix and no marker in the URL.
Unidentifiable(url) == url.prefix = "" /\ ~url.git /\ ~url.bitbucket

\* C20: for every repo_url whose type cannot be identified, clone raises
\* UnknownRepoType, having created no directory, asked nothing and started
\* no subprocess.
C20_UnknownRepoType ==
    Unidentifiable(repo_url) /\ clPc # "start" =>
        /\ clPc = "raised"
        /\ clRaised = "UnknownRepoType"
        /\ clFs = clFs0
        /\ clPrompts = <<>>
        /\ clSubprocesses = <<>>

\* unzip has ended after finding that its destination already existed.
EndedOnExistingDestination ==
    /\ uzDest0 = "old"
    /\ zipValid
    /\ uzPc \in {"returned", "raised"}

\* C21: when unzip finds its destination already there, then with no_input,
\* or when the user agrees to delete it, the old destination is removed
\* exactly once, the extracted contents are copied there and the path is
\* returned without error; when the user declines and chooses to reuse, the
\* destination is left as it was and its path is returned; and
\* prompt_and_delete returns True exactly when it deleted the path.
C21_ExistingDestination ==
    /\ EndedOnExistingDestination /\ (uzNoInput \/ uzAnswers.delete) =>
          /\ uzPc = "returned" /\ uzRaised = "none" /\ uzResult
          /\ uzRemovals = 1
          /\ uzDest = uzSource /\ uzDest \in {"inner", "all"}
    /\ EndedOnExistingDestination /\ ~uzNoInput /\ ~uzAnswers.delete
          /\ uzAnswers.reuse =>
          /\ uzPc = "returned" /\ uzRaised = "none" /\ uzResult
          /\ uzRemovals = 0
          /\ uzDest = "old"
    /\ uzPrompt.called => (uzPrompt.ret = "true" <=> uzPrompt.deleted)

====
